---- MODULE Spec2Model ----
(***************************************************************************)
(* Hybrid multi-stage retrieval engine of the legacy RAG agent:            *)
(*   rag/core/vector_database.py  FaissVectorDatabase                      *)
(*   rag/core/retriever.py        MultiStageRetriever                      *)
(*   rag/core/query_processor.py  QueryProcessor (validation only)         *)
(*   rag/core/embedding_engine.py EmbeddingEngine (the TF-IDF fit and      *)
(*                                embed_chunks)                            *)
(*                                                                         *)
(* Numbers.  Python floats are modelled as fixed-point integers: a score s *)
(* is stored as s * SCALE, truncated.  Unit vectors are stored with        *)
(* NormScale per unit, so an inner product of two unit vectors is a score  *)
(* at SCALE = NormScale * NormScale.  Word counts, token counts and        *)
(* character counts are plain naturals.  Python's None is the value NONE.  *)
(***************************************************************************)
EXTENDS Integers, Sequences, FiniteSets, TLC

VARIABLES
    vector_db,      \* FaissVectorDatabase instance (record of its fields)
    db_op,          \* last FaissVectorDatabase method called
    db_arg,         \* its argument (batch of add_embeddings / query of search_dense)
    db_ret,         \* its outcome
    db_k,           \* the k of the last search_dense call (0 before any)
    embedding_engine, \* EmbeddingEngine instance of the ingestion (its TF-IDF fields)
    retriever,      \* MultiStageRetriever configuration fields
    pc,             \* position of the running retrieve() call
    call,           \* inputs of the running retrieve() call
    stage,          \* intermediate result lists of the running call
    response,       \* what retrieve() handed to its caller
    callers         \* coroutines running retrieve() concurrently on one engine

vars == <<vector_db, db_op, db_arg, db_ret, db_k, embedding_engine, retriever, pc, call,
          stage, response, callers>>

dbvars == <<vector_db, db_op, db_arg, db_ret, db_k, embedding_engine>>
rtvars == <<retriever, pc, call, stage, response, callers>>

----------------------------------------------------------------------------
(* Generic helpers *)

NONE == -1000000

NormScale == 100
SCALE == NormScale * NormScale

Range(s) == {s[i] : i \in 1..Len(s)}

Min2(a, b) == IF a <= b THEN a ELSE b
Max2(a, b) == IF a >= b THEN a ELSE b

RECURSIVE SumSeq(_)
SumSeq(s) == IF s = <<>> THEN 0 ELSE s[1] + SumSeq(Tail(s))

SeqMax(s) == CHOOSE m \in Range(s) : \A x \in Range(s) : x <= m
SeqMin(s) == CHOOSE m \in Range(s) : \A x \in Range(s) : x >= m

Take(s, n) == SubSeq(s, 1, Min2(Len(s), Max2(n, 0)))

\* floor of the square root, by bisection: lo * lo <= n < hi * hi
RECURSIVE ISqrtFrom(_, _, _)
ISqrtFrom(n, lo, hi) ==
    IF hi - lo <= 1 THEN lo
    ELSE LET mid == (lo + hi) \div 2
         IN  IF mid * mid <= n THEN ISqrtFrom(n, mid, hi) ELSE ISqrtFrom(n, lo, mid)
\* (46340 * 46340 is the largest square of the 32-bit integers)
ISqrt(n) == ISqrtFrom(n, 0, Min2(n, 46340) + 1)

\* Python: sorted(xs, key=..., reverse=True) -- stable, descending.  keys[i]
\* is the key of element i; the result lists the positions in sorted order.
\* Position i is inserted after every position whose key is >= keys[i].
RECURSIVE InsertDesc(_, _, _)
InsertDesc(i, perm, keys) ==
    IF perm = <<>> THEN <<i>>
    ELSE IF keys[perm[1]] >= keys[i]
         THEN <<perm[1]>> \o InsertDesc(i, Tail(perm), keys)
         ELSE <<i>> \o perm

RECURSIVE SortPermUpTo(_, _)
SortPermUpTo(n, keys) ==
    IF n = 0 THEN <<>> ELSE InsertDesc(n, SortPermUpTo(n - 1, keys), keys)

SortDesc(s, keys) ==
    LET perm == SortPermUpTo(Len(s), keys)
    IN  [j \in 1..Len(s) |-> s[perm[j]]]

----------------------------------------------------------------------------
(* FaissVectorDatabase *)

\* Bounds of the vector-database exploration
MaxBatch == 2
MaxVectors == 3
MaxK == 2
MaxAfterBulk == 1

\* embedding_dimension the instances are constructed with
D == 2

\* EmbeddingResult objects handed to add_embeddings: chunk id, dense
\* embedding, and the sparse embedding: whether one comes with it and, if
\* so, the fitted vocabulary whose terms are the columns of that one-row
\* matrix (the row is the TF-IDF transform of the chunk's text under that
\* vocabulary).
EmbeddingResultOf(chunk_id, dense_embedding, has_sparse, vocabulary) ==
    [chunk_id |-> chunk_id, dense_embedding |-> dense_embedding,
     has_sparse |-> has_sparse, vocabulary |-> vocabulary]

\* The vocabulary of the results that were embedded ahead of the calls
GivenVocabulary == {"reset", "password", "login", "incident"}

EmbeddingResult(chunk_id, dense_embedding, has_sparse) ==
    EmbeddingResultOf(chunk_id, dense_embedding, has_sparse,
                      IF has_sparse THEN GivenVocabulary ELSE {})

Embeddings ==
    { EmbeddingResult("c1", <<1, 0>>, TRUE),
      EmbeddingResult("c4", <<0, 1>>, TRUE),
      EmbeddingResult("c5", <<9, 1>>, FALSE),
      EmbeddingResult("w3", <<1, 0, 0>>, TRUE) }

BatchesUpTo(n) == UNION { [1..m -> Embeddings] : m \in 0..n }

\* Below this many vectors in a batch an untrained IVF database switches to
\* FLAT
IVFSmallDataset == 1000

\* A bulk ingestion: the smallest batch that is not a small dataset, chunks
\* b1, b2, ... of one document, none with a sparse embedding
BulkBatch ==
    [i \in 1..IVFSmallDataset |-> EmbeddingResult("b" \o ToString(i), <<3, 4>>, FALSE)]

QueryEmbeddings == { <<1, 0>>, <<9, 1>>, <<0, 1>>, <<1, 0, 0>>, <<1>> }

\* FaissVectorDatabase fields.  chunk_metadata is represented by its key set,
\* chunk_id_to_id by its set of <<chunk_id, internal_id>> items, and
\* sparse_embeddings by the list of its rows, each the sparse vector of a
\* chunk under a vocabulary (None is the empty list: vstack never produces a
\* matrix without rows).
\* faiss index object: which class it is, whether it has been trained, and
\* the vectors it holds at internal positions 1..Len (faiss ids 0..Len-1).
NewIndex(index_type) ==
    [kind    |-> index_type,
     trained |-> index_type # "IVF",
     vectors |-> <<>>]

NewDatabase(dim, index_type, nlist, metric) ==
    [embedding_dimension |-> dim,
     index_type          |-> index_type,
     nlist               |-> nlist,
     metric              |-> metric,
     dense_index         |-> NewIndex(index_type),
     chunk_metadata      |-> {},
     id_to_chunk_id      |-> <<>>,
     chunk_id_to_id      |-> {},
     next_id             |-> 0,
     sparse_embeddings   |-> <<>>,
     sparse_chunk_ids    |-> <<>>,
     is_trained          |-> FALSE,
     total_vectors       |-> 0]

Dot(a, b) == SumSeq([i \in 1..Len(a) |-> a[i] * b[i]])

\* _normalize_vectors: unit length under the cosine metric (a zero vector is
\* divided by 1), unchanged otherwise.
NormalizeVector(metric, v) ==
    IF metric = "cosine"
    THEN LET n == ISqrt(Dot(v, v) * SCALE)     \* the norm, NormScale per unit
             d == IF n = 0 THEN NormScale ELSE n
         IN  [i \in 1..Len(v) |-> (v[i] * SCALE) \div d]
    ELSE v

\* add_embeddings, lines 186-197: the dimension checks.  The first embedding
\* is compared with embedding_dimension; np.array() of lists of unequal
\* length and the per-embedding loop reject every other mismatch.
BatchIsValid(db, batch) ==
    /\ Len(batch[1].dense_embedding) = db.embedding_dimension
    /\ \A i \in 1..Len(batch) :
          Len(batch[i].dense_embedding) = db.embedding_dimension

\* The row a result's sparse embedding contributes to the stored matrix
SparseRow(r) == [chunk_id |-> r.chunk_id, vocabulary |-> r.vocabulary]

SparseRows(batch) ==
    LET sparse == SelectSeq(batch, LAMBDA r : r.has_sparse)
    IN  [i \in 1..Len(sparse) |-> SparseRow(sparse[i])]

\* sp.vstack, line 209: blocks of different widths (numbers of vocabulary
\* terms) cannot be stacked, and the call raises ValueError
Widths(rows) == {Cardinality(rows[i].vocabulary) : i \in 1..Len(rows)}

Stackable(db, batch) ==
    Cardinality(Widths(db.sparse_embeddings) \cup Widths(SparseRows(batch))) <= 1

\* add_embeddings, lines 204-212: the sparse store
AddSparse(db, batch) ==
    IF SparseRows(batch) # <<>>
    THEN [db EXCEPT
            !.sparse_embeddings = @ \o SparseRows(batch),
            !.sparse_chunk_ids  = @ \o [i \in 1..Len(batch) |-> batch[i].chunk_id]]
    ELSE db

\* add_embeddings, lines 214-223: metadata and id mappings.  Result i of the
\* batch gets internal id next_id + i - 1; a chunk id that occurs more than
\* once in the batch keeps, in chunk_id_to_id, the id of its last occurrence.
AddMappings(db, batch) ==
    LET n       == Len(batch)
        ids     == {batch[i].chunk_id : i \in 1..n}
        last(c) == CHOOSE i \in 1..n :
                      /\ batch[i].chunk_id = c
                      /\ \A j \in (i + 1)..n : batch[j].chunk_id # c
        items   == IF Cardinality(ids) = n      \* no chunk id twice in the batch
                   THEN {<<batch[i].chunk_id, db.next_id + i - 1>> : i \in 1..n}
                   ELSE {<<c, db.next_id + last(c) - 1>> : c \in ids}
    IN  [db EXCEPT
            !.id_to_chunk_id = @ \o [i \in 1..n |-> batch[i].chunk_id],
            !.chunk_id_to_id = {it \in @ : it[1] \notin ids} \cup items,
            !.chunk_metadata = @ \cup ids,
            !.next_id        = @ + n]

\* the training branch without the assignment to is_trained
TrainOrSwitchNoFlag(db, n) ==
    IF db.index_type = "IVF" /\ ~db.is_trained
    THEN IF n < IVFSmallDataset
         THEN [db EXCEPT !.dense_index = NewIndex("FLAT"),
                         !.index_type  = "FLAT",
                         !.is_trained  = TRUE]
         ELSE IF n < db.nlist
         THEN [db EXCEPT !.dense_index = NewIndex("FLAT")]
         ELSE [db EXCEPT !.dense_index.trained = TRUE]
    ELSE db

\* add_embeddings, lines 225-244: train the IVF index or switch to FLAT
TrainOrSwitch(db, n) ==
    IF db.index_type = "IVF" /\ ~db.is_trained
    THEN IF n < IVFSmallDataset
         THEN [db EXCEPT !.dense_index = NewIndex("FLAT"),
                         !.index_type  = "FLAT",
                         !.is_trained  = TRUE]
         ELSE IF n < db.nlist
         THEN [db EXCEPT !.dense_index = NewIndex("FLAT")]
         ELSE [db EXCEPT !.dense_index.trained = TRUE,
                         !.is_trained = TRUE]
    ELSE db

\* add_embeddings with the dimension checks placed after the bookkeeping: a
\* mismatched batch still raises, but only once its ids are recorded.
AddEmbeddingsValidateLate(db, batch) ==
    IF batch = <<>>
    THEN [outcome |-> "False", db |-> db]
    ELSE LET mapped == AddMappings(AddSparse(db, batch), batch)
         IN  IF ~BatchIsValid(db, batch)
             THEN [outcome |-> "raised", db |-> mapped]
             ELSE LET vectors == [i \in 1..Len(batch) |->
                                    NormalizeVector(db.metric, batch[i].dense_embedding)]
                      ready   == TrainOrSwitch(mapped, Len(vectors))
                  IN  [outcome |-> "True",
                       db |-> [ready EXCEPT
                                 !.dense_index.vectors = @ \o vectors,
                                 !.total_vectors = @ + Len(vectors)]]

\* add_embeddings: the whole method.  outcome is the return value ("True",
\* "False") or "raised"; db is the database the call leaves behind.
AddEmbeddings(db, batch) ==
    IF batch = <<>>
    THEN [outcome |-> "False", db |-> db]
    ELSE IF ~BatchIsValid(db, batch)
    THEN [outcome |-> "raised", db |-> db]
    ELSE IF ~Stackable(db, batch)
    THEN [outcome |-> "raised", db |-> db]
    ELSE LET vectors == [i \in 1..Len(batch) |->
                            NormalizeVector(db.metric, batch[i].dense_embedding)]
             mapped  == AddMappings(AddSparse(db, batch), batch)
             ready   == TrainOrSwitch(mapped, Len(vectors))
         IN  IF ~ready.dense_index.trained
             THEN \* faiss refuses to add to an untrained IVF index
                  [outcome |-> "raised", db |-> ready]
             ELSE [outcome |-> "True",
                   db |-> [ready EXCEPT
                             !.dense_index.vectors = @ \o vectors,
                             !.total_vectors = @ + Len(vectors)]]

\* faiss search: similarity of the query with every stored vector, best
\* first (largest inner product, or smallest squared L2 distance), ties in
\* storage order.  Pairs <<score, faiss id>>.
IndexScore(metric, q, v) ==
    IF metric = "l2"
    THEN Dot([i \in 1..Len(q) |-> q[i] - v[i]], [i \in 1..Len(q) |-> q[i] - v[i]])
    ELSE Dot(q, v)

\* The k best positions of keys, best first: repeatedly the largest key among
\* the positions left, the earliest position among equal keys.
BestKey(ks) == CHOOSE x \in ks : \A y \in ks : y <= x

FirstWithKey(keys, left, m) ==
    CHOOSE j \in left : keys[j] = m /\ \A l \in left : keys[l] = m => j <= l

BestPosition(keys, left) ==
    FirstWithKey(keys, left, BestKey({keys[i] : i \in left}))

RECURSIVE IndexTopK(_, _, _)
IndexTopKAfter(keys, left, k, i) == <<i>> \o IndexTopK(keys, left \ {i}, k - 1)

IndexTopK(keys, left, k) ==
    IF k <= 0 \/ left = {} THEN <<>>
    ELSE IndexTopKAfter(keys, left, k, BestPosition(keys, left))

\* search with its order left out: the first k stored vectors as they lie in
\* the index
IndexSearchStorageOrder(db, q, k) ==
    LET vs == db.dense_index.vectors
    IN  Take([i \in 1..Len(vs) |-> <<IndexScore(db.metric, q, vs[i]), i - 1>>], k)

\* the score of every stored vector, in storage order
IndexScores(metric, q, vs) ==
    <<>> \o [i \in 1..Len(vs) |-> IndexScore(metric, q, vs[i])]

\* larger key, better hit: the inner product, or the negated distance
IndexKeys(metric, scores) ==
    <<>> \o [i \in 1..Len(scores) |-> IF metric = "l2" THEN 0 - scores[i] ELSE scores[i]]

IndexHits(scores, best) ==
    [j \in 1..Len(best) |-> <<scores[best[j]], best[j] - 1>>]

IndexBest(metric, scores, k) ==
    IndexHits(scores, IndexTopK(IndexKeys(metric, scores), 1..Len(scores), k))

IndexSearch(db, q, k) ==
    IndexBest(db.metric, IndexScores(db.metric, q, db.dense_index.vectors), k)

\* search_dense with the dimension check before the empty-database check
SearchDenseValidateFirst(db, query_embedding, k) ==
    IF Len(query_embedding) # db.embedding_dimension
    THEN [outcome |-> "raised", results |-> <<>>]
    ELSE IF db.total_vectors = 0
    THEN [outcome |-> "ok", results |-> <<>>]
    ELSE LET q    == NormalizeVector(db.metric, query_embedding)
             hits == IndexSearch(db, q, Min2(k, db.total_vectors))
         IN  [outcome |-> "ok",
              results |-> [i \in 1..Len(hits) |->
                             [chunk_id |-> db.id_to_chunk_id[hits[i][2] + 1],
                              score    |-> hits[i][1]]]]

\* search_dense rejecting only queries longer than the index dimension
SearchDenseRejectLonger(db, query_embedding, k) ==
    IF db.total_vectors = 0
    THEN [outcome |-> "ok", results |-> <<>>]
    ELSE IF Len(query_embedding) > db.embedding_dimension
    THEN [outcome |-> "raised", results |-> <<>>]
    ELSE LET q    == NormalizeVector(db.metric, query_embedding)
             hits == IndexSearch(db, q, Min2(k, db.total_vectors))
         IN  [outcome |-> "ok",
              results |-> [i \in 1..Len(hits) |->
                             [chunk_id |-> db.id_to_chunk_id[hits[i][2] + 1],
                              score    |-> hits[i][1]]]]

\* search_dense: outcome "ok" with the SearchResult list (chunk_id, score),
\* or "raised".
SearchDense(db, query_embedding, k) ==
    IF db.total_vectors = 0
    THEN [outcome |-> "ok", results |-> <<>>]
    ELSE IF Len(query_embedding) # db.embedding_dimension
    THEN [outcome |-> "raised", results |-> <<>>]
    ELSE LET q    == NormalizeVector(db.metric, query_embedding)
             hits == IndexSearch(db, q, Min2(k, db.total_vectors))
         IN  [outcome |-> "ok",
              results |-> [i \in 1..Len(hits) |->
                             [chunk_id |-> db.id_to_chunk_id[hits[i][2] + 1],
                              score    |-> hits[i][1]]]]

----------------------------------------------------------------------------
(* The document collection and the queries (external collaborators) *)

\* chunks_metadata as loaded from the processed-chunks file, in file order.
\* Of a chunk's content the engine uses: its length in characters, its words
\* per sentence (split on '. '), the set of its lower-cased words, and the
\* set of its first 20 lower-cased words.  Of its metadata: the section
\* (None, or a string of so many words and characters and of some kind), a
\* subsection that is either absent or not a string, token_count and
\* chunk_type.
ChunkOrder == <<"c1", "c2", "c3", "c4", "c5", "c6">>

NoSection == [present |-> FALSE, name |-> "", words |-> 0, chars |-> 0]
Section(name, words, chars) ==
    [present |-> TRUE, name |-> name, words |-> words, chars |-> chars]

\* Further chunks of a larger collection, each on a topic of its own
MoreChunks == <<"c7", "c8", "c9", "c10", "c11", "c12">>

ChunkData ==
    [c \in Range(ChunkOrder) \cup Range(MoreChunks) |->
       CASE c = "c1" ->
              [sentences |-> <<30, 30, 40>>, chars |-> 600,
               words |-> {"reset", "password", "login", "account"},
               lead  |-> {"reset", "password", "login", "account"},
               section |-> Section("how to reset", 3, 12),
               subsection_is_str |-> TRUE,
               token_count |-> 130, chunk_type |-> "semantic"]
         [] c = "c2" ->
              [sentences |-> <<160>>, chars |-> 960,
               words |-> {"reset", "password", "login", "account", "email"},
               lead  |-> {"reset", "password", "login", "account"},
               section |-> Section("overview", 1, 8),
               subsection_is_str |-> TRUE,
               token_count |-> 130, chunk_type |-> "recursive"]
         [] c = "c3" ->
              [sentences |-> <<60, 70, 70>>, chars |-> 1200,
               words |-> {"configure", "server", "password"},
               lead  |-> {"configure", "server"},
               section |-> NoSection,
               subsection_is_str |-> TRUE,
               token_count |-> 260, chunk_type |-> "semantic"]
         [] c = "c4" ->
              [sentences |-> <<20, 20>>, chars |-> 240,
               words |-> {"incident", "ticket", "login"},
               lead  |-> {"incident", "ticket", "login"},
               section |-> Section("incident management", 2, 19),
               subsection_is_str |-> TRUE,
               token_count |-> 50, chunk_type |-> "semantic"]
         [] c = "c5" ->
              [sentences |-> <<60, 60, 60>>, chars |-> 3200,
               words |-> {"router", "switch", "network"},
               lead  |-> {"network", "router"},
               section |-> Section("network guide", 2, 13),
               subsection_is_str |-> FALSE,
               token_count |-> 240, chunk_type |-> "hierarchical"]
         [] c \in Range(MoreChunks) ->
              [sentences |-> <<10>>, chars |-> 60,
               words |-> {c, "guide"},
               lead  |-> {c, "guide"},
               section |-> NoSection,
               subsection_is_str |-> TRUE,
               token_count |-> 12, chunk_type |-> "semantic"]
         [] OTHER ->
              [sentences |-> <<10>>, chars |-> 60,
               words |-> {"password", "policy"},
               lead  |-> {"password", "policy"},
               section |-> NoSection,
               subsection_is_str |-> TRUE,
               token_count |-> 12, chunk_type |-> "semantic"]]

ContentWords(c) == SumSeq(ChunkData[c].sentences)

\* Dense embedding the embedding provider produced for each chunk
ChunkEmbedding ==
    [c \in Range(ChunkOrder) |->
       CASE c = "c1" -> <<1, 0>>
         [] c = "c2" -> <<4, 3>>
         [] c = "c3" -> <<3, 4>>
         [] c = "c4" -> <<0, 1>>
         [] c = "c5" -> <<4, 3>>
         [] OTHER    -> <<3, 4>>]

----------------------------------------------------------------------------
(* EmbeddingEngine *)

\* EmbeddingEngine.__init__: no vectorizer, nothing fitted.  A fitted
\* TfidfVectorizer is represented by its vocabulary_, the set of its terms
\* (None is the empty set: fit never ends with an empty vocabulary).
NewEmbeddingEngine == [tfidf_vectorizer |-> {}, is_fitted |-> FALSE]

\* fit_sparse_embeddings: a new TfidfVectorizer fitted on the texts replaces
\* the one the engine had.  For a corpus of up to 10 texts min_df is 1 and
\* max_df 1.0, and max_features (100 per text) is above the number of terms,
\* so the vocabulary is every term of every text.
FitSparseEmbeddings(engine, chunks) ==
    [engine EXCEPT
       !.tfidf_vectorizer = UNION {ChunkData[chunks[i]].words : i \in 1..Len(chunks)},
       !.is_fitted = TRUE]

\* embed_chunks: fit on the texts of the chunks, transform them under the
\* vocabulary just fitted, take the provider's dense embeddings, and pair
\* them off in one EmbeddingResult per chunk.
EmbedChunks(engine, chunks) ==
    [engine  |-> FitSparseEmbeddings(engine, chunks),
     results |-> [i \in 1..Len(chunks) |->
                    EmbeddingResultOf(chunks[i], ChunkEmbedding[chunks[i]], TRUE,
                        FitSparseEmbeddings(engine, chunks).tfidf_vectorizer)]]

\* Queries a caller passes to retrieve.  valid: QueryProcessor._validate_query
\* accepts it.  nwords/words: the query text.  embedding: what the embedding
\* provider returns for it.  enhanced: whether query processing produced an
\* enhanced query different from the original, with its own words and
\* embedding.  key_term_words: words of the first 8 expanded terms (0: no
\* expansion).
Queries ==
    { [id |-> "q_reset", valid |-> TRUE, nwords |-> 2,
       words |-> {"reset", "password"}, embedding |-> <<1, 0>>,
       enhanced |-> FALSE, enhanced_words |-> {}, enhanced_embedding |-> <<1, 0>>,
       key_term_words |-> 0],
      [id |-> "q_login", valid |-> TRUE, nwords |-> 4,
       words |-> {"how", "to", "configure", "log"}, embedding |-> <<4, 3>>,
       enhanced |-> TRUE, enhanced_words |-> {"server", "network"},
       enhanced_embedding |-> <<3, 4>>,
       key_term_words |-> 5],
      [id |-> "q_none", valid |-> TRUE, nwords |-> 1,
       words |-> {"printer"}, embedding |-> <<0, 1>>,
       enhanced |-> FALSE, enhanced_words |-> {}, enhanced_embedding |-> <<0, 1>>,
       key_term_words |-> 0],
      [id |-> "q_blank", valid |-> FALSE, nwords |-> 0,
       words |-> {}, embedding |-> <<0, 0>>,
       enhanced |-> FALSE, enhanced_words |-> {}, enhanced_embedding |-> <<0, 0>>,
       key_term_words |-> 0] }

\* "word in content_lower": a query word occurs in the content as a
\* substring when it is one of its words or a part of one of them.
PartOfWord == { <<"log", "login">> }

OccursIn(word, c) ==
    \/ word \in ChunkData[c].words
    \/ \E w \in ChunkData[c].words : <<word, w>> \in PartOfWord

----------------------------------------------------------------------------
(* MultiStageRetriever: initial retrieval and fusion *)

\* RetrievalResult; content and metadata are ChunkData[chunk_id].
RetrievalResult(chunk_id, dense_score, sparse_score, hybrid_score) ==
    [chunk_id      |-> chunk_id,
     dense_score   |-> dense_score,
     sparse_score  |-> sparse_score,
     hybrid_score  |-> hybrid_score,
     rerank_score  |-> NONE,
     final_score   |-> NONE,
     rank_position |-> 0]

\* Weights are stored in tenths (0.7 is 7)
Weighted(score, weight) == (score * weight) \div 10

\* embedding_engine.get_dense_embedding: the provider's vector, of the
\* provider's dimension
GetDenseEmbedding(rt, v) ==
    IF rt.embedding_dimension = Len(v) THEN v
    ELSE [i \in 1..rt.embedding_dimension |-> IF i <= Len(v) THEN v[i] ELSE 0]

\* search terms of _initial_retrieval: the original query, then the enhanced
\* query when it differs
SearchTerms(q) ==
    IF q.enhanced THEN <<q.embedding, q.enhanced_embedding>> ELSE <<q.embedding>>

\* keep the first occurrence of every chunk_id
RECURSIVE Deduplicate(_, _)
Deduplicate(results, seen) ==
    IF results = <<>> THEN <<>>
    ELSE IF results[1].chunk_id \in seen
         THEN Deduplicate(Tail(results), seen)
         ELSE <<results[1]>> \o Deduplicate(Tail(results), seen \cup {results[1].chunk_id})

\* one iteration of the loop over search terms: the hits that have metadata
DenseHits(rt, hits) ==
    LET known == SelectSeq(hits, LAMBDA h : h.chunk_id \in Range(ChunkOrder))
    IN  [i \in 1..Len(known) |->
           RetrievalResult(known[i].chunk_id, known[i].score, 0,
                           Weighted(known[i].score, rt.dense_weight))]

RECURSIVE DenseCollect(_, _, _, _)
DenseCollect(rt, db, terms, k) ==
    IF terms = <<>> THEN [raised |-> FALSE, results |-> <<>>]
    ELSE LET found == SearchDense(db, GetDenseEmbedding(rt, terms[1]), k)
             rest  == DenseCollect(rt, db, Tail(terms), k)
         IN  IF found.outcome = "raised" \/ rest.raised
             THEN [raised |-> TRUE, results |-> <<>>]
             ELSE [raised |-> FALSE,
                   results |-> DenseHits(rt, found.results) \o rest.results]

\* _dense_retrieval.  raised records that search_dense raised inside it; the
\* method itself catches every exception and returns [].
DenseRetrieval(rt, db, q, k) ==
    IF ~rt.embedding_engine
    THEN [raised |-> FALSE, results |-> <<>>]
    ELSE LET got == DenseCollect(rt, db, SearchTerms(q), k)
         IN  IF got.raised
             THEN [raised |-> TRUE, results |-> <<>>]
             ELSE LET sorted == SortDesc(got.results,
                                  [i \in 1..Len(got.results) |-> got.results[i].dense_score])
                  IN  [raised |-> FALSE,
                       results |-> Take(Deduplicate(sorted, {}), k)]

\* TfidfVectorizer.transform + cosine_similarity (scikit-learn): similarity
\* of the combined query text with a chunk, 0 when they share no word.
TfidfSimilarity(qwords, c) ==
    LET shared == Cardinality(qwords \cap ChunkData[c].words)
    IN  (SCALE * shared) \div (Cardinality(qwords) + Cardinality(ChunkData[c].words))

\* np.argsort(similarities)[::-1]: positions by decreasing similarity, equal
\* similarities in decreasing position
ArgsortReversed(sims) ==
    LET n    == Len(sims)
        rev  == [i \in 1..n |-> n + 1 - i]
    IN  SortDesc(rev, [i \in 1..n |-> sims[n + 1 - i]])

\* _sparse_retrieval.  raised records that the method ended by an
\* exception: without TF-IDF components (nothing fitted, nothing loaded) it
\* logs a warning and returns [], lines 413-415.
SparseRetrieval(rt, q, k) ==
    IF ~rt.tfidf THEN [raised |-> FALSE, results |-> <<>>]
    ELSE LET qwords == q.words \cup (IF q.enhanced THEN q.enhanced_words ELSE {})
             sims   == [i \in 1..Len(ChunkOrder) |-> TfidfSimilarity(qwords, ChunkOrder[i])]
             top    == Take(ArgsortReversed(sims), k)
             kept   == SelectSeq(top, LAMBDA i : sims[i] > 0)
         IN  [raised |-> FALSE,
              results |-> [j \in 1..Len(kept) |->
                RetrievalResult(ChunkOrder[kept[j]], 0, sims[kept[j]],
                                Weighted(sims[kept[j]], rt.sparse_weight))]]

\* _calculate_context_boost, as a factor at SCALE
SectionKind(name) ==
    IF name \in {"how to reset", "network guide", "overview guide"} THEN "procedural"
    ELSE IF name \in {"overview"} THEN "introductory"
    ELSE "other"

Times(boost, percent) == (boost * percent) \div 100

\* the boost without its cap
ContextBoostUncapped(content_length, section, token_count, chunk_type) ==
    LET b1 == IF 800 <= content_length /\ content_length <= 2000 THEN Times(SCALE, 110)
              ELSE IF content_length > 3000 THEN Times(SCALE, 95)
              ELSE SCALE
        b2 == IF section.present /\ SectionKind(section.name) = "procedural"
              THEN Times(b1, 115)
              ELSE IF section.present /\ SectionKind(section.name) = "introductory"
              THEN Times(b1, 105)
              ELSE b1
        b3 == IF 200 <= token_count /\ token_count <= 1500 THEN Times(b2, 108) ELSE b2
    IN  IF chunk_type = "semantic" THEN Times(b3, 105) ELSE b3

\* _calculate_context_boost over the content length and the metadata
ContextBoost(content_length, section, token_count, chunk_type) ==
    LET b1 == IF 800 <= content_length /\ content_length <= 2000 THEN Times(SCALE, 110)
              ELSE IF content_length > 3000 THEN Times(SCALE, 95)
              ELSE SCALE
        b2 == IF section.present /\ SectionKind(section.name) = "procedural"
              THEN Times(b1, 115)
              ELSE IF section.present /\ SectionKind(section.name) = "introductory"
              THEN Times(b1, 105)
              ELSE b1
        b3 == IF 200 <= token_count /\ token_count <= 1500 THEN Times(b2, 108) ELSE b2
        b4 == IF chunk_type = "semantic" THEN Times(b3, 105) ELSE b3
    IN  Min2(b4, (SCALE * 13) \div 10)

\* _calculate_context_boost of a result: its content and metadata are those
\* of its chunk
CalculateContextBoost(c) ==
    ContextBoost(ChunkData[c].chars, ChunkData[c].section,
                 ChunkData[c].token_count, ChunkData[c].chunk_type)

\* min-max normalisation used by _combine_retrieval_results: the range is
\* max - min, or 1.0 when all scores are equal
Normalized(score, scores) ==
    LET lo == SeqMin(scores)
        hi == SeqMax(scores)
    IN  IF hi > lo THEN ((score - lo) * SCALE) \div (hi - lo) ELSE score - lo

\* a list in place of the dict: every result is appended
DictPutAlwaysAppend(combined, result) == Append(combined, result)

\* combined[result.chunk_id] = result on an insertion-ordered dict
DictPut(combined, result) ==
    IF \E i \in 1..Len(combined) : combined[i].chunk_id = result.chunk_id
    THEN [i \in 1..Len(combined) |->
            IF combined[i].chunk_id = result.chunk_id THEN result ELSE combined[i]]
    ELSE Append(combined, result)

DictGet(combined, chunk_id) ==
    combined[CHOOSE i \in 1..Len(combined) : combined[i].chunk_id = chunk_id]

RECURSIVE MergeDense(_, _, _)
MergeDense(combined, dense, scores) ==
    IF dense = <<>> THEN combined
    ELSE MergeDense(
            DictPut(combined,
                    [dense[1] EXCEPT !.dense_score = Normalized(dense[1].dense_score, scores)]),
            Tail(dense), scores)

RECURSIVE MergeSparse(_, _, _, _)
MergeSparse(rt, combined, sparse, scores) ==
    IF sparse = <<>> THEN combined
    ELSE LET r    == sparse[1]
             ns   == Normalized(r.sparse_score, scores)
             boost == CalculateContextBoost(r.chunk_id)
             merged ==
               IF \E i \in 1..Len(combined) : combined[i].chunk_id = r.chunk_id
               THEN LET old  == DictGet(combined, r.chunk_id)
                        base == Weighted(old.dense_score, rt.dense_weight)
                                + Weighted(ns, rt.sparse_weight)
                    IN  [old EXCEPT !.sparse_score = ns,
                                    !.hybrid_score = (base * boost) \div SCALE]
               ELSE [r EXCEPT !.sparse_score = ns,
                              !.hybrid_score =
                                 (Weighted(ns, rt.sparse_weight) * boost) \div SCALE]
         IN  MergeSparse(rt, DictPut(combined, merged), Tail(sparse), scores)

\* _apply_position_aware_ranking
ByHybrid(results) ==
    SortDesc(results, [i \in 1..Len(results) |-> results[i].hybrid_score])

ApplyPositionAwareRanking(results) ==
    LET sorted == ByHybrid(results)
        decayed == [i \in 1..Len(sorted) |->
                      IF i - 1 < 15
                      THEN [sorted[i] EXCEPT
                              !.hybrid_score = (@ * (1000 - 5 * (i - 1))) \div 1000]
                      ELSE sorted[i]]
    IN  ByHybrid(decayed)

\* _combine_retrieval_results
CombineRetrievalResults(rt, dense, sparse) ==
    LET dense_scores  == [i \in 1..Len(dense) |-> dense[i].dense_score]
        sparse_scores == [i \in 1..Len(sparse) |-> sparse[i].sparse_score]
        combined == MergeSparse(rt, MergeDense(<<>>, dense, dense_scores),
                                sparse, sparse_scores)
    IN  ApplyPositionAwareRanking(combined)

\* _initial_retrieval
InitialRetrieval(rt, db, q) ==
    LET dense  == DenseRetrieval(rt, db, q, rt.max_initial_results)
        sparse == SparseRetrieval(rt, q, rt.max_initial_results)
    IN  [dense_raised |-> dense.raised,
         sparse_raised |-> sparse.raised,
         results |-> Take(CombineRetrievalResults(rt, dense.results, sparse.results),
                          rt.max_initial_results)]

----------------------------------------------------------------------------
(* MultiStageRetriever: reranking *)

\* What the external cross-encoder does with one batch of pairs:
\*   "scores"  one raw score per pair
\*   "throws"  predict raises
\*   "short"   an answer with one score fewer than there are pairs
CrossEncoderBehaviours == {"scores", "throws", "short"}

\* Raw relevance the cross-encoder model assigns to (query, passage)
PredictScore(q, c) ==
    30 * Cardinality(q.words \cap ChunkData[c].words) - (ChunkData[c].chars \div 100)

Half == SCALE \div 2

\* _cross_encoder_score whose handler returns no scores
CrossEncoderScoreNoFallback(behaviour, q, candidates) ==
    IF behaviour = "throws"
    THEN <<>>
    ELSE LET n      == IF behaviour = "short"
                       THEN Max2(Len(candidates) - 1, 0)
                       ELSE Len(candidates)
             scores == [i \in 1..n |-> PredictScore(q, candidates[i].chunk_id)]
         IN  IF n > 1
             THEN IF SeqMax(scores) > SeqMin(scores)
                  THEN [i \in 1..n |->
                          ((scores[i] - SeqMin(scores)) * SCALE)
                             \div (SeqMax(scores) - SeqMin(scores))]
                  ELSE [i \in 1..n |-> SCALE]
             ELSE IF n = 1 THEN <<SCALE>> ELSE <<>>

\* _cross_encoder_score
CrossEncoderScore(behaviour, q, candidates) ==
    IF behaviour = "throws"
    THEN [i \in 1..Len(candidates) |-> Half]
    ELSE LET n      == IF behaviour = "short"
                       THEN Max2(Len(candidates) - 1, 0)
                       ELSE Len(candidates)
             scores == [i \in 1..n |-> PredictScore(q, candidates[i].chunk_id)]
         IN  IF n > 1
             THEN IF SeqMax(scores) > SeqMin(scores)
                  THEN [i \in 1..n |->
                          ((scores[i] - SeqMin(scores)) * SCALE)
                             \div (SeqMax(scores) - SeqMin(scores))]
                  ELSE [i \in 1..n |-> SCALE]
             ELSE IF n = 1 THEN <<SCALE>> ELSE <<>>

\* _advanced_similarity_score, one candidate
SimilarityScore(q, c) ==
    LET nq        == Cardinality(q.words)
        overlap   == IF nq > 0
                     THEN (SCALE * Cardinality(q.words \cap ChunkData[c].words)) \div nq
                     ELSE 0
        substring == IF nq > 0
                     THEN (SCALE * Cardinality({w \in q.words : OccursIn(w, c)})) \div nq
                     ELSE 0
        chars     == ChunkData[c].chars
        length    == IF chars > 0
                     THEN IF chars > 500 THEN Min2(SCALE, (SCALE * 500) \div chars)
                          ELSE SCALE
                     ELSE 0
        combined  == (overlap * 4) \div 10 + (substring * 4) \div 10 + (length * 2) \div 10
    IN  Min2(combined, SCALE)

\* the neutral scores of the handler in place of the computed ones
AdvancedSimilarityScoreNeutral(q, candidates) ==
    [i \in 1..Len(candidates) |-> Half]

AdvancedSimilarityScore(q, candidates) ==
    [i \in 1..Len(candidates) |-> SimilarityScore(q, candidates[i].chunk_id)]

ByFinal(results) ==
    SortDesc(results, [i \in 1..Len(results) |-> results[i].final_score])

\* the scoring loop of _rerank_results, lines 607-618
Scored(candidates, rerank_scores) ==
    [i \in 1..Len(candidates) |->
       [candidates[i] EXCEPT
          !.rerank_score = rerank_scores[i],
          !.final_score  = (candidates[i].hybrid_score * 6) \div 10
                           + (rerank_scores[i] * 4) \div 10]]

\* lines 620-625: sort by final score, number the positions
Ranked(scored) ==
    LET sorted == ByFinal(scored)
    IN  [i \in 1..Len(sorted) |-> [sorted[i] EXCEPT !.rank_position = i]]

\* _rerank_results.  When the score list is shorter than the candidate list
\* the loop raises IndexError after it has scored the first candidates in
\* place; the handler returns the candidates as they then are.
RerankResults(rt, behaviour, q, results) ==
    LET candidates    == Take(results, rt.max_reranked_results)
        rerank_scores == IF rt.cross_encoder
                         THEN CrossEncoderScore(behaviour, q, candidates)
                         ELSE AdvancedSimilarityScore(q, candidates)
    IN  IF Len(rerank_scores) < Len(candidates)
        THEN [raised |-> TRUE,
              results |-> Scored(Take(candidates, Len(rerank_scores)), rerank_scores)
                          \o SubSeq(candidates, Len(rerank_scores) + 1, Len(candidates))]
        ELSE [raised |-> FALSE, results |-> Ranked(Scored(candidates, rerank_scores))]

----------------------------------------------------------------------------
(* MultiStageRetriever: diversity injection and context budgeting *)

\* _estimate_tokens: int(words * 0.75)
EstimateTokens(words) == (words * 3) \div 4

ReservedTokens == 200
MinUsefulTokens == 100
ExtendedSelection == 15
DiversityCap == 10

\* _apply_diversity_injection.  Comparing a final_score of None with 0.9
\* raises TypeError; it is evaluated only when the overlap test fails.
RECURSIVE DiversityLoop(_, _, _)
DiversityLoop(rest, diverse, used_keywords) ==
    IF rest = <<>> THEN [raised |-> FALSE, results |-> diverse]
    ELSE LET r        == rest[1]
             keywords == ChunkData[r.chunk_id].lead
             different ==
                 IF keywords # {}
                 THEN 10 * Cardinality(used_keywords \cap keywords) < 7 * Cardinality(keywords)
                 ELSE TRUE
         IN  IF ~different /\ r.final_score = NONE
             THEN [raised |-> TRUE, results |-> diverse]
             ELSE IF different \/ r.final_score > (SCALE * 9) \div 10
             THEN IF Len(diverse) + 1 >= DiversityCap
                  THEN [raised |-> FALSE, results |-> Append(diverse, r)]
                  ELSE DiversityLoop(Tail(rest), Append(diverse, r),
                                     used_keywords \cup keywords)
             ELSE DiversityLoop(Tail(rest), diverse, used_keywords)

\* diversity injection that starts from an empty selection
ApplyDiversityInjectionNoTop(results) ==
    IF Len(results) <= 3
    THEN [raised |-> FALSE, results |-> results]
    ELSE DiversityLoop(Tail(results), <<>>, {})

ApplyDiversityInjection(results) ==
    IF Len(results) <= 3
    THEN [raised |-> FALSE, results |-> results]
    ELSE DiversityLoop(Tail(results), <<results[1]>>, ChunkData[results[1].chunk_id].lead)

\* _extract_section_info: " | ".join of the section and subsection; joining
\* a subsection that is not a string raises TypeError
SectionInfoRaises(c) == ~ChunkData[c].subsection_is_str

\* the context header "=== SOURCE i section ===\nRelevance: 0.123\n"
Digits(n) == IF n < 10 THEN 1 ELSE 2
HeaderWords(c) == 6 + ChunkData[c].section.words
HeaderChars(i, c) == 34 + Digits(i) + ChunkData[c].section.chars

\* _smart_truncate: the number of words kept and how they were chosen
\* ("" keeps nothing; "sentences" keeps that many whole leading sentences;
\* "words" is the raw word cut; "all" is the whole content)
RECURSIVE WholeSentences(_, _, _)
WholeSentences(sentences, current_length, max_words) ==
    IF sentences = <<>> THEN <<>>
    ELSE IF current_length + sentences[1] <= max_words
         THEN <<sentences[1]>> \o
              WholeSentences(Tail(sentences), current_length + sentences[1], max_words)
         ELSE <<>>

SmartTruncate(c, max_tokens) ==
    IF max_tokens <= 0 THEN [how |-> "", words |-> 0, sentences |-> 0]
    ELSE LET max_words == (max_tokens * 4) \div 3
             kept      == WholeSentences(ChunkData[c].sentences, 0, max_words)
         IN  IF ContentWords(c) <= max_words
             THEN [how |-> "all", words |-> ContentWords(c),
                   sentences |-> Len(ChunkData[c].sentences)]
             ELSE IF kept # <<>>
             THEN [how |-> "sentences", words |-> SumSeq(kept), sentences |-> Len(kept)]
             ELSE [how |-> "words", words |-> max_words, sentences |-> 0]

\* The loop of _context_fusion, lines 752-789.  parts: the context parts
\* appended so far (chunk, words, truncation); total_tokens; sections: the
\* section_info strings covered.
RECURSIVE BudgetLoop(_, _, _, _, _, _)
BudgetLoop(diverse, i, available_tokens, parts, total_tokens, sections) ==
    IF i > Len(diverse)
    THEN [raised |-> FALSE, parts |-> parts, sections |-> sections]
    ELSE LET r == diverse[i]
             c == r.chunk_id
         IN  IF SectionInfoRaises(c) \/ r.final_score = NONE
             THEN [raised |-> TRUE, parts |-> parts, sections |-> sections]
             ELSE LET words            == HeaderWords(c) + ContentWords(c)
                      estimated_tokens == EstimateTokens(words)
                  IN  IF total_tokens + estimated_tokens <= available_tokens
                      THEN BudgetLoop(diverse, i + 1, available_tokens,
                              Append(parts, [chunk_id |-> c, words |-> words,
                                             truncated |-> "no", sentences |-> 0]),
                              total_tokens + estimated_tokens,
                              IF ChunkData[c].section.present
                              THEN sections \cup {ChunkData[c].section}
                              ELSE sections)
                      ELSE IF available_tokens - total_tokens > MinUsefulTokens
                      THEN LET cut == SmartTruncate(c,
                                        available_tokens - total_tokens
                                          - HeaderChars(i, c) - 20)
                           IN  [raised |-> FALSE,
                                parts |-> IF cut.words > 0
                                          THEN Append(parts,
                                                 [chunk_id |-> c,
                                                  words |-> HeaderWords(c) + cut.words + 1,
                                                  truncated |-> cut.how,
                                                  sentences |-> cut.sentences])
                                          ELSE parts,
                                sections |-> sections]
                      ELSE [raised |-> FALSE, parts |-> parts, sections |-> sections]

RECURSIVE SectionWords(_)
SectionWords(sections) ==
    IF sections = {} THEN 0
    ELSE LET x == CHOOSE y \in sections : TRUE
         IN  x.words + SectionWords(sections \ {x})

\* _build_query_context: words of the query-analysis header (title line,
\* "Original Query:" line, "Intent:" line, "Sections Covered:" line, and the
\* "Key Terms:" line when the query was expanded)
QueryContextWords(q, sections) ==
    4 + (2 + q.nwords) + 4
      + (2 + IF sections # {} THEN SectionWords(sections) ELSE 1)
      + (IF q.key_term_words > 0 THEN 2 + q.key_term_words ELSE 0)

\* _assemble_final_context: the header, then the parts, a separator line
\* (one word) before each part
AssembledWords(query_context_words, parts) ==
    query_context_words + Len(parts)
      + SumSeq([i \in 1..Len(parts) |-> parts[i].words])

\* _simple_context_fusion: "[Source i] content" for every result
SimpleContextFusion(results) ==
    [results |-> results,
     fusion  |-> "simple",
     parts   |-> [i \in 1..Len(results) |->
                    [chunk_id |-> results[i].chunk_id,
                     words |-> 2 + ContentWords(results[i].chunk_id),
                     truncated |-> "no", sentences |-> 0]],
     context_words |-> SumSeq([i \in 1..Len(results) |->
                                 2 + ContentWords(results[i].chunk_id)])]

\* _context_fusion returning the whole diversified list, whatever was emitted
ContextFusionAllDiverse(rt, q, results) ==
    LET diverse == ApplyDiversityInjection(Take(results, ExtendedSelection))
        loop    == BudgetLoop(diverse.results, 1,
                              rt.context_window_size - ReservedTokens, <<>>, 0, {})
    IN  IF diverse.raised \/ loop.raised
        THEN SimpleContextFusion(Take(results, rt.max_final_results))
        ELSE [results |-> diverse.results,
              fusion  |-> "advanced",
              parts   |-> loop.parts,
              context_words |->
                  AssembledWords(QueryContextWords(q, loop.sections), loop.parts)]

\* _context_fusion
ContextFusion(rt, q, results) ==
    LET diverse == ApplyDiversityInjection(Take(results, ExtendedSelection))
        loop    == BudgetLoop(diverse.results, 1,
                              rt.context_window_size - ReservedTokens, <<>>, 0, {})
    IN  IF diverse.raised \/ loop.raised
        THEN SimpleContextFusion(Take(results, rt.max_final_results))
        ELSE [results |-> Take(diverse.results, Len(loop.parts)),
              fusion  |-> "advanced",
              parts   |-> loop.parts,
              context_words |->
                  AssembledWords(QueryContextWords(q, loop.sections), loop.parts)]

----------------------------------------------------------------------------
(* State machine *)

\* Bound on the number of retrieve calls of one exploration
MaxQueries == 1

IndexTypes == {"FLAT", "IVF", "HNSW"}

\* nlist values: the default, and one above the small-dataset limit
NLists == {100, 2000}
Metrics == {"cosine", "ip", "l2"}

\* context_window_size values the engine is configured with
Budgets == {320, 400, 10000}

\* <<dense_weight, sparse_weight>> in tenths: the defaults, and a pair that
\* does not sum to 1.0
Weights == {<<7, 3>>, <<7, 7>>}

\* MultiStageRetriever.__init__: the arguments are stored as given
NewRetriever(weights, budget, max_final, engine, dim, cross_encoder, tfidf) ==
    [dense_weight         |-> weights[1],
     sparse_weight        |-> weights[2],
     max_initial_results  |-> 50,
     max_reranked_results |-> 10,
     max_final_results    |-> max_final,
     context_window_size  |-> budget,
     embedding_engine     |-> engine,
     embedding_dimension  |-> dim,
     cross_encoder        |-> cross_encoder,
     tfidf                |-> tfidf,
     total_queries        |-> 0,
     avg_retrieval_time   |-> 0]

RetrieverConfigs ==
    { NewRetriever(w, b, f, e, d, x, t) :
        w \in Weights, b \in Budgets, f \in {2, 5}, e \in BOOLEAN, d \in {D, D + 1},
        x \in BOOLEAN, t \in BOOLEAN }

\* Databases the retriever loads: the one nothing was added to, and the ones
\* the ingestion built by add_embeddings over the first chunks of the
\* collection (the first one alone, the first two, four, six).
ChunkBatch(n) ==
    [i \in 1..n |-> EmbeddingResult(ChunkOrder[i], ChunkEmbedding[ChunkOrder[i]], TRUE)]

LoadedDatabases ==
    { NewDatabase(D, "FLAT", 100, "cosine"),
      AddEmbeddings(NewDatabase(D, "FLAT", 100, "cosine"), ChunkBatch(1)).db,
      AddEmbeddings(NewDatabase(D, "FLAT", 100, "cosine"), ChunkBatch(2)).db,
      AddEmbeddings(NewDatabase(D, "IVF", 100, "cosine"), ChunkBatch(4)).db,
      AddEmbeddings(NewDatabase(D, "HNSW", 100, "cosine"), ChunkBatch(6)).db }

NoCall == [query |-> CHOOSE q \in Queries : ~q.valid, cross_encoder |-> "scores"]
NoStage == [initial |-> <<>>, dense_raised |-> FALSE, sparse_raised |-> FALSE,
            reranked |-> <<>>, rerank_raised |-> FALSE]
NoResponse == [outcome |-> "none", results |-> <<>>, fusion |-> "none",
               parts |-> <<>>, context_words |-> 0]
NoReturn == [outcome |-> "none", results |-> <<>>, db |-> "none"]

\* retrieve() measures processing_time in milliseconds; the measured values
ProcessingTimes == {1, 3}

\* avg_retrieval_time is stored in 1/TimeScale milliseconds, which keeps the
\* running mean of up to five queries exact
TimeScale == 60

\* the statistics update with the last processing_time in place of the
\* running mean
UpdateStatisticsOverwrite(rt, processing_time) ==
    [rt EXCEPT !.total_queries = @ + 1,
               !.avg_retrieval_time = processing_time * TimeScale]

\* retrieve, lines 304-308: the statistics update
UpdateStatistics(rt, processing_time) ==
    LET n == rt.total_queries + 1
    IN  [rt EXCEPT
           !.total_queries = n,
           !.avg_retrieval_time = (@ * (n - 1) + processing_time * TimeScale) \div n]

\* No coroutine is running retrieve()
NoCallers == <<>>

IdleRetriever ==
    /\ retriever = NewRetriever(<<7, 3>>, 10000, 5, TRUE, D, TRUE, TRUE)
    /\ pc = "idle"
    /\ call = NoCall
    /\ stage = NoStage
    /\ response = NoResponse
    /\ callers = NoCallers

\* A database under construction
InitDB ==
    /\ \E t \in IndexTypes, m \in Metrics, n \in NLists :
          /\ (t # "IVF" \/ m # "cosine") => n = 100
          /\ vector_db = NewDatabase(D, t, n, m)
    /\ db_op = "init"
    /\ db_arg = <<>>
    /\ db_ret = NoReturn
    /\ db_k = 0
    /\ embedding_engine = NewEmbeddingEngine
    /\ IdleRetriever

\* add_embeddings(batch).  The exploration is bounded to MaxVectors vectors
\* from small batches, or to one bulk ingestion, made first and into an IVF
\* database under the cosine metric (no other index type looks at the size
\* of a batch, and the metric plays no part in it), with MaxAfterBulk vectors
\* after it.
AddEmbeddingsCall(batch) ==
    /\ IF batch = BulkBatch
       THEN /\ db_op = "init"
            /\ vector_db.index_type = "IVF"
            /\ vector_db.metric = "cosine"
       ELSE IF vector_db.next_id >= Len(BulkBatch)
       THEN vector_db.next_id - Len(BulkBatch) + Len(batch) <= MaxAfterBulk
       ELSE vector_db.next_id + Len(batch) <= MaxVectors
    /\ LET r == AddEmbeddings(vector_db, batch)
       IN  /\ vector_db' = r.db
           /\ db_ret' = [outcome |-> r.outcome, results |-> <<>>, db |-> "none"]
    /\ db_op' = "add_embeddings"
    /\ db_arg' = batch
    /\ db_k' = 0
    /\ UNCHANGED <<embedding_engine, rtvars>>

\* search_dense(query_embedding, k)
SearchDenseCall(query_embedding, k) ==
    /\ LET r == SearchDense(vector_db, query_embedding, k)
       IN  db_ret' = [outcome |-> r.outcome, results |-> r.results, db |-> "none"]
    /\ db_op' = "search_dense"
    /\ db_arg' = query_embedding
    /\ db_k' = k
    /\ UNCHANGED <<vector_db, embedding_engine, rtvars>>

NextDB ==
    \/ \E batch \in BatchesUpTo(MaxBatch) \cup {BulkBatch} : AddEmbeddingsCall(batch)
    \/ \E q \in QueryEmbeddings, k \in 1..MaxK : SearchDenseCall(q, k)

SpecDB == InitDB /\ [][NextDB]_vars

\* An engine opened for queries over a loaded database
Init ==
    /\ vector_db \in LoadedDatabases
    /\ db_op = "init"
    /\ db_arg = <<>>
    /\ db_ret = NoReturn
    /\ db_k = 0
    /\ embedding_engine = NewEmbeddingEngine
    /\ retriever \in RetrieverConfigs
    /\ pc = "idle"
    /\ call = NoCall
    /\ stage = NoStage
    /\ response = NoResponse
    /\ callers = NoCallers

\* retrieve(query) is called; the cross-encoder will behave as given
Retrieve(q, behaviour) ==
    /\ pc = "idle"
    /\ retriever.total_queries < MaxQueries
    /\ call' = [query |-> q, cross_encoder |-> behaviour]
    /\ stage' = NoStage
    /\ response' = NoResponse
    /\ pc' = "process_query"
    /\ UNCHANGED <<dbvars, callers, retriever>>

\* Stage 1: query_processor.process_query; an invalid query raises
\* ValueError, which retrieve logs and re-raises
ProcessQuery ==
    /\ pc = "process_query"
    /\ IF call.query.valid
       THEN /\ pc' = "initial_retrieval"
            /\ UNCHANGED response
       ELSE /\ pc' = "done"
            /\ response' = [NoResponse EXCEPT !.outcome = "raised"]
    /\ UNCHANGED <<dbvars, callers, retriever, call, stage>>

\* Stage 2: _initial_retrieval
InitialRetrievalStep ==
    /\ pc = "initial_retrieval"
    /\ LET r == InitialRetrieval(retriever, vector_db, call.query)
       IN  stage' = [stage EXCEPT !.initial = r.results,
                                  !.dense_raised = r.dense_raised,
                                  !.sparse_raised = r.sparse_raised]
    /\ pc' = "rerank"
    /\ UNCHANGED <<dbvars, callers, retriever, call, response>>

\* Stage 3: _rerank_results
RerankStep ==
    /\ pc = "rerank"
    /\ LET r == RerankResults(retriever, call.cross_encoder, call.query, stage.initial)
       IN  stage' = [stage EXCEPT !.reranked = r.results,
                                  !.rerank_raised = r.raised]
    /\ pc' = "context_fusion"
    /\ UNCHANGED <<dbvars, callers, retriever, call, response>>

\* Stage 4 and the rest of retrieve: _context_fusion, the statistics update,
\* the response
ContextFusionStep ==
    /\ pc = "context_fusion"
    /\ LET r == ContextFusion(retriever, call.query, stage.reranked)
       IN  response' = [outcome |-> "returned", results |-> r.results,
                        fusion |-> r.fusion, parts |-> r.parts,
                        context_words |-> r.context_words]
    /\ \E t \in ProcessingTimes : retriever' = UpdateStatistics(retriever, t)
    /\ pc' = "done"
    /\ UNCHANGED <<dbvars, callers, call, stage>>

\* the caller takes the response (or the exception)
Return ==
    /\ pc = "done"
    /\ pc' = "idle"
    /\ UNCHANGED <<dbvars, callers, retriever, call, stage, response>>

Next ==
    \/ \E q \in Queries, b \in CrossEncoderBehaviours : Retrieve(q, b)
    \/ ProcessQuery
    \/ InitialRetrievalStep
    \/ RerankStep
    \/ ContextFusionStep
    \/ Return

Spec == Init /\ [][Next]_vars

----------------------------------------------------------------------------
(* Concurrent retrieve() calls on one engine *)

\* retrieve is a coroutine (async def).  The coroutines of one engine run on
\* one event loop: a coroutine runs alone from one await to the next, and
\* another one can run only while it is suspended in an await (lines 287,
\* 290, 293 and 296).  The stages work on the call's own locals and read the
\* indexes; the statistics update (lines 304-308) is the only write to the
\* engine, and it lies, with the building of the response, after the last
\* await.

\* Bound on the number of concurrent calls
MaxCallers == 2

Callers == 1..MaxCallers

\* A coroutine: where it stands, whether its query is valid, its place in
\* the order of the calls, the processing_time it measured, and the
\* total_queries of the retrieval_stats copy in its response.
NotCalled ==
    [pc |-> "not_called", valid |-> TRUE, arrival |-> 0,
     processing_time |-> 0, stats_total_queries |-> 0]

InitStats ==
    /\ vector_db = AddEmbeddings(NewDatabase(D, "FLAT", 100, "cosine"), ChunkBatch(2)).db
    /\ db_op = "init"
    /\ db_arg = <<>>
    /\ db_ret = NoReturn
    /\ db_k = 0
    /\ embedding_engine = NewEmbeddingEngine
    /\ retriever = NewRetriever(<<7, 3>>, 10000, 5, TRUE, D, TRUE, TRUE)
    /\ pc = "idle"
    /\ call = NoCall
    /\ stage = NoStage
    /\ response = NoResponse
    /\ callers = [c \in Callers |-> NotCalled]

\* caller c calls retrieve(q): the coroutine starts and takes start_time
RetrieveCall(c, q) ==
    /\ callers[c].pc = "not_called"
    /\ callers' = [callers EXCEPT
                     ![c].pc = "process_query",
                     ![c].valid = q.valid,
                     ![c].arrival =
                        1 + Cardinality({d \in Callers : callers[d].pc # "not_called"})]
    /\ UNCHANGED <<dbvars, retriever, pc, call, stage, response>>

\* await process_query (line 287) is over: on, or out by the re-raised
\* ValueError
AwaitProcessQuery(c) ==
    /\ callers[c].pc = "process_query"
    /\ callers' = [callers EXCEPT
                     ![c].pc = IF callers[c].valid THEN "initial_retrieval" ELSE "raised"]
    /\ UNCHANGED <<dbvars, retriever, pc, call, stage, response>>

\* await _initial_retrieval (line 290) is over
AwaitInitialRetrieval(c) ==
    /\ callers[c].pc = "initial_retrieval"
    /\ callers' = [callers EXCEPT ![c].pc = "rerank"]
    /\ UNCHANGED <<dbvars, retriever, pc, call, stage, response>>

\* await _rerank_results (line 293) is over
AwaitRerank(c) ==
    /\ callers[c].pc = "rerank"
    /\ callers' = [callers EXCEPT ![c].pc = "context_fusion"]
    /\ UNCHANGED <<dbvars, retriever, pc, call, stage, response>>

\* await _context_fusion (line 296) is over, and the coroutine runs to its
\* return: processing_time, the statistics update, the response with its
\* copy of the statistics
FinishRetrieve(c, processing_time) ==
    /\ callers[c].pc = "context_fusion"
    /\ retriever' = UpdateStatistics(retriever, processing_time)
    /\ callers' = [callers EXCEPT
                     ![c].pc = "returned",
                     ![c].processing_time = processing_time,
                     ![c].stats_total_queries = retriever'.total_queries]
    /\ UNCHANGED <<dbvars, pc, call, stage, response>>

NextStats ==
    \/ \E c \in Callers, q \in Queries : RetrieveCall(c, q)
    \/ \E c \in Callers : AwaitProcessQuery(c)
    \/ \E c \in Callers : AwaitInitialRetrieval(c)
    \/ \E c \in Callers : AwaitRerank(c)
    \/ \E c \in Callers, t \in ProcessingTimes : FinishRetrieve(c, t)

SpecStats == InitStats /\ [][NextStats]_vars

----------------------------------------------------------------------------
(* _apply_diversity_injection over the reranked lists of a larger collection *)

\* The collection in its stored order, and in the opposite order
Collection == ChunkOrder \o MoreChunks
Reversed(s) == [i \in 1..Len(s) |-> s[Len(s) + 1 - i]]

\* final_score by rank position, as _rerank_results leaves it (sorted,
\* best first): all above 0.9, all below, the first four above, or None
\* where the reranking loop raised before it scored anything
ScoreProfiles == {"high", "low", "mixed", "unscored"}

FinalScoreAt(profile, i) ==
    CASE profile = "high"     -> 9900 - 10 * i
      [] profile = "low"      -> 8000 - 100 * i
      [] profile = "mixed"    -> IF i <= 4 THEN 9900 - 10 * i ELSE 8000 - 100 * i
      [] OTHER                -> NONE

\* the results of the chunks of `chosen`, in the order of `order`, scored
\* by `profile`
RankedList(order, chosen, profile) ==
    LET ids == SelectSeq(order, LAMBDA c : c \in chosen)
    IN  [i \in 1..Len(ids) |->
           [RetrievalResult(ids[i], 0, 0, 0) EXCEPT
              !.final_score   = FinalScoreAt(profile, i),
              !.rank_position = i]]

RankedLists ==
    { RankedList(order, chosen, profile) :
        order \in {Collection, Reversed(Collection)},
        chosen \in SUBSET Range(Collection),
        profile \in ScoreProfiles }

\* _context_fusion has been handed a reranked list
InitDiversity ==
    /\ vector_db = NewDatabase(D, "FLAT", 100, "cosine")
    /\ db_op = "init"
    /\ db_arg = <<>>
    /\ db_ret = NoReturn
    /\ db_k = 0
    /\ embedding_engine = NewEmbeddingEngine
    /\ retriever = NewRetriever(<<7, 3>>, 10000, 5, TRUE, D, TRUE, TRUE)
    /\ pc = "context_fusion"
    /\ call = NoCall
    /\ \E results \in RankedLists : stage = [NoStage EXCEPT !.reranked = results]
    /\ response = NoResponse
    /\ callers = NoCallers

\* _context_fusion, lines 738-741: the extended selection and
\* _apply_diversity_injection over it; response.results holds
\* diverse_results
DiversityInjectionStep ==
    /\ pc = "context_fusion"
    /\ LET r == ApplyDiversityInjection(Take(stage.reranked, ExtendedSelection))
       IN  response' = [NoResponse EXCEPT
                          !.outcome = IF r.raised THEN "raised" ELSE "diverse",
                          !.results = r.results]
    /\ pc' = "diversity_injection"
    /\ UNCHANGED <<dbvars, callers, retriever, call, stage>>

NextDiversity == DiversityInjectionStep

SpecDiversity == InitDiversity /\ [][NextDiversity]_vars

----------------------------------------------------------------------------
(* _calculate_context_boost over contents and metadata of every kind *)

\* content lengths on both sides of every threshold of the length heuristic
ContentLengths == {0, 799, 800, 2000, 2001, 3000, 3001}

\* metadata['section']: absent, procedural, introductory, both keywords
\* (the procedural test comes first), neither
Sections ==
    { NoSection, Section("how to reset", 3, 12), Section("overview", 1, 8),
      Section("overview guide", 2, 14), Section("incident management", 2, 19) }

\* metadata.get('token_count', 0) on both sides of its thresholds
TokenCounts == {0, 199, 200, 1500, 1501}

ChunkTypes == {"semantic", "recursive", "hierarchical"}

\* a result with some content and metadata is about to be boosted
InitBoost ==
    /\ vector_db = NewDatabase(D, "FLAT", 100, "cosine")
    /\ db_op = "init"
    /\ db_arg = <<>>
    /\ db_ret = NoReturn
    /\ db_k = 0
    /\ embedding_engine = NewEmbeddingEngine
    /\ retriever = NewRetriever(<<7, 3>>, 10000, 5, TRUE, D, TRUE, TRUE)
    /\ pc = "calculate_context_boost"
    /\ \E l \in ContentLengths, s \in Sections, t \in TokenCounts, c \in ChunkTypes :
          call = [content_length |-> l, section |-> s, token_count |-> t,
                  chunk_type |-> c]
    /\ stage = NoStage
    /\ response = NoResponse
    /\ callers = NoCallers

\* _calculate_context_boost(result) returns
CalculateContextBoostStep ==
    /\ pc = "calculate_context_boost"
    /\ response' = [outcome |-> "boost",
                    boost |-> ContextBoost(call.content_length, call.section,
                                           call.token_count, call.chunk_type)]
    /\ pc' = "boosted"
    /\ UNCHANGED <<dbvars, callers, retriever, call, stage>>

NextBoost == CalculateContextBoostStep

SpecBoost == InitBoost /\ [][NextBoost]_vars

----------------------------------------------------------------------------
(* _advanced_similarity_score invoked again on the same inputs *)

\* Bounds: candidates per list, invocations on one list
MaxCandidates == 2
MaxInvocations == 2

\* lists of distinct chunks of the collection, as results to be reranked
CandidateLists ==
    UNION { { [i \in 1..n |-> RetrievalResult(f[i], 0, 0, 0)] :
                f \in { g \in [1..n -> Range(ChunkOrder)] :
                          \A i, j \in 1..n : i # j => g[i] # g[j] } } :
            n \in 0..MaxCandidates }

\* an engine without a cross-encoder, a valid query and its candidates;
\* response.results collects the score list of every invocation
InitFallback ==
    /\ vector_db = NewDatabase(D, "FLAT", 100, "cosine")
    /\ db_op = "init"
    /\ db_arg = <<>>
    /\ db_ret = NoReturn
    /\ db_k = 0
    /\ embedding_engine = NewEmbeddingEngine
    /\ retriever = NewRetriever(<<7, 3>>, 10000, 5, TRUE, D, FALSE, TRUE)
    /\ pc = "rerank"
    /\ \E q \in {x \in Queries : x.valid} : call = [query |-> q, cross_encoder |-> "scores"]
    /\ \E candidates \in CandidateLists : stage = [NoStage EXCEPT !.initial = candidates]
    /\ response = NoResponse
    /\ callers = NoCallers

\* _rerank_results reaches line 604 in one more retrieve call for the same
\* query and candidates; the call ends with its statistics update
AdvancedSimilarityScoreCall ==
    /\ pc = "rerank"
    /\ Len(response.results) < MaxInvocations
    /\ response' = [response EXCEPT
                      !.results = Append(@, AdvancedSimilarityScore(call.query,
                                                                    stage.initial))]
    /\ \E t \in ProcessingTimes : retriever' = UpdateStatistics(retriever, t)
    /\ UNCHANGED <<dbvars, callers, pc, call, stage>>

NextFallback == AdvancedSimilarityScoreCall

SpecFallback == InitFallback /\ [][NextFallback]_vars

----------------------------------------------------------------------------
(* The ingestion: embed_chunks on a batch of chunks, add_embeddings of its
   results, and again on the next batch *)

\* Bounds of the ingestion
MaxChunks == 2
MaxIngested == 4

\* Batches of chunks a document yields: chunks of the collection, none twice
ChunkLists ==
    { chunks \in UNION { [1..n -> Range(ChunkOrder)] : n \in 1..MaxChunks } :
        \A i, j \in 1..Len(chunks) : chunks[i] = chunks[j] => i = j }

InitIngest ==
    /\ \E t \in IndexTypes : vector_db = NewDatabase(D, t, 100, "cosine")
    /\ db_op = "init"
    /\ db_arg = <<>>
    /\ db_ret = NoReturn
    /\ db_k = 0
    /\ embedding_engine = NewEmbeddingEngine
    /\ IdleRetriever

\* embedding_results = embedding_engine.embed_chunks(chunks)
EmbedChunksCall(chunks) ==
    /\ db_op \in {"init", "add_embeddings"}
    /\ vector_db.next_id + Len(chunks) <= MaxIngested
    /\ embedding_engine' = EmbedChunks(embedding_engine, chunks).engine
    /\ db_arg' = EmbedChunks(embedding_engine, chunks).results
    /\ db_op' = "embed_chunks"
    /\ db_ret' = [outcome |-> "results", results |-> <<>>, db |-> "none"]
    /\ UNCHANGED <<vector_db, db_k, rtvars>>

\* vector_db.add_embeddings(embedding_results)
AddEmbeddedChunks ==
    /\ db_op = "embed_chunks"
    /\ vector_db' = AddEmbeddings(vector_db, db_arg).db
    /\ db_ret' = [outcome |-> AddEmbeddings(vector_db, db_arg).outcome,
                  results |-> <<>>, db |-> "none"]
    /\ db_op' = "add_embeddings"
    /\ UNCHANGED <<db_arg, db_k, embedding_engine, rtvars>>

NextIngest ==
    \/ \E chunks \in ChunkLists : EmbedChunksCall(chunks)
    \/ AddEmbeddedChunks

SpecIngest == InitIngest /\ [][NextIngest]_vars

----------------------------------------------------------------------------
(* Properties *)

Returned == pc = "done" /\ response.outcome = "returned"

\* C1: the estimated token cost of the fused context of every response
\* (query header, separators and all source blocks) is at most the
\* configured context_window_size, on the advanced and on the simple path.
C1_ContextWithinBudget ==
    Returned => EstimateTokens(response.context_words) <= retriever.context_window_size

\* C2: the rank_position values of the returned results are 1, 2, ..., N in
\* list order.
C2_RankPositionsDense ==
    Returned => \A i \in 1..Len(response.results) :
                    response.results[i].rank_position = i

\* C3: every returned result has a final_score and the final scores do not
\* increase along the list.
C3_FinalScoreNonIncreasing ==
    Returned =>
        /\ \A i \in 1..Len(response.results) : response.results[i].final_score # NONE
        /\ \A i \in 1..(Len(response.results) - 1) :
              response.results[i].final_score >= response.results[i + 1].final_score

\* C4: no chunk_id occurs twice in the fused candidate list, nor in the
\* results of a response.
UniqueChunkIds(results) ==
    \A i, j \in 1..Len(results) :
        results[i].chunk_id = results[j].chunk_id => i = j

C4_ChunkIdsUnique ==
    /\ UniqueChunkIds(stage.initial)
    /\ UniqueChunkIds(response.results)

\* C4 witness: a chunk found by the dense search for both search terms and
\* by the sparse search was fused and returned.
C4_Witness ==
    /\ Returned
    /\ call.query.enhanced
    /\ \E i \in 1..Len(response.results) :
          /\ response.results[i].dense_score > 0
          /\ response.results[i].sparse_score > 0
    /\ Len(response.results) >= 2

\* C5: every call to retrieve ends by returning a response; no call ends
\* with an exception, also when query processing rejects the query.
C5_AlwaysResponds ==
    pc = "done" => response.outcome = "returned"

\* C6: when the cross-encoder call throws, retrieve returns a response whose
\* results all carry a rerank_score and a final_score and are ordered by
\* final_score.
CrossEncoderThrew ==
    /\ pc = "done"
    /\ call.query.valid
    /\ retriever.cross_encoder
    /\ call.cross_encoder = "throws"

C6_ThrowStillRanked ==
    CrossEncoderThrew =>
        /\ response.outcome = "returned"
        /\ \A i \in 1..Len(response.results) :
              /\ response.results[i].rerank_score # NONE
              /\ response.results[i].final_score # NONE
        /\ \A i \in 1..(Len(response.results) - 1) :
              response.results[i].final_score >= response.results[i + 1].final_score

\* C6 witness: the cross-encoder threw on a batch of several candidates with
\* different hybrid scores, and several of them were returned.
C6_Witness ==
    /\ CrossEncoderThrew
    /\ Len(response.results) >= 3
    /\ \E i, j \in 1..Len(stage.initial) :
          stage.initial[i].hybrid_score # stage.initial[j].hybrid_score

\* C7: a query embedding whose dimension differs from the dimension of the
\* dense index makes retrieve fail with that error.
C7_DimensionMismatchPropagates ==
    ( /\ pc = "done"
      /\ call.query.valid
      /\ retriever.embedding_engine
      /\ retriever.embedding_dimension # vector_db.embedding_dimension )
    => response.outcome = "raised"

Mismatched(embedding) == Len(embedding) # vector_db.embedding_dimension

\* C8 as stated: in every index state, the empty one included, search_dense
\* with a query of another length than the index dimension raises.
C8_AlwaysValidatesQuery ==
    (db_op = "search_dense" /\ Mismatched(db_arg)) => db_ret.outcome = "raised"

\* C8 amended: on an index that holds at least one vector, search_dense with
\* a query of another length than the index dimension raises and yields no
\* result list.
C8_ValidatesQueryWhenPopulated ==
    (db_op = "search_dense" /\ Mismatched(db_arg) /\ vector_db.total_vectors > 0)
    => (db_ret.outcome = "raised" /\ db_ret.results = <<>>)

C8_Witness ==
    /\ db_op = "search_dense"
    /\ Mismatched(db_arg)
    /\ vector_db.total_vectors > 0
    /\ db_ret.outcome = "raised"

\* C9: add_embeddings with a batch in which some embedding (the first or a
\* later one) has another length than the index dimension raises and leaves
\* every field of the database as it was.
BatchMismatched(batch) ==
    \E i \in 1..Len(batch) : Mismatched(batch[i].dense_embedding)

C9_MismatchedBatchRejected ==
    [][ (db_op' = "add_embeddings" /\ BatchMismatched(db_arg'))
           => (db_ret'.outcome = "raised" /\ vector_db' = vector_db) ]_vars

\* C9 witness: a populated database rejected a batch whose first embedding
\* fits and whose second does not.
C9_Witness ==
    /\ db_op = "add_embeddings"
    /\ db_ret.outcome = "raised"
    /\ vector_db.total_vectors > 0
    /\ Len(db_arg) = 2
    /\ ~Mismatched(db_arg[1].dense_embedding)
    /\ Mismatched(db_arg[2].dense_embedding)

\* C10: search_dense on a database into which nothing has been inserted
\* returns an empty list and does not raise, whatever the query and k.
C10_EmptyIndexReturnsEmpty ==
    (db_op = "search_dense" /\ vector_db.total_vectors = 0)
    => (db_ret.outcome = "ok" /\ db_ret.results = <<>>)

\* C10 witness: such a search with a query of the wrong length
C10_Witness ==
    /\ db_op = "search_dense"
    /\ vector_db.total_vectors = 0
    /\ Mismatched(db_arg)
    /\ db_ret.outcome = "ok"

\* C11: on a populated index of any metric, a search_dense call that returns
\* gives at most k results, ordered from the most similar to the least
\* similar: scores do not increase under cosine and inner product, squared
\* distances do not decrease under L2.
C11_AtMostKBestFirst ==
    (db_op = "search_dense" /\ vector_db.total_vectors > 0 /\ db_ret.outcome = "ok")
    => /\ Len(db_ret.results) <= db_k
       /\ \A i \in 1..(Len(db_ret.results) - 1) :
             IF vector_db.metric = "l2"
             THEN db_ret.results[i].score <= db_ret.results[i + 1].score
             ELSE db_ret.results[i].score >= db_ret.results[i + 1].score

\* C11 witness: the scenario of the specification.  Chunks [1,0], [0,1] and
\* [0.9,0.1] under cosine, query [1,0], k = 2: the first chunk, then the
\* third, the second being left out although it is stored before the third.
C11_Witness ==
    /\ db_op = "search_dense"
    /\ vector_db.metric = "cosine"
    /\ vector_db.id_to_chunk_id = <<"c1", "c4", "c5">>
    /\ db_arg = <<1, 0>>
    /\ db_k = 2
    /\ Len(db_ret.results) = 2
    /\ db_ret.results[1].chunk_id = "c1"
    /\ db_ret.results[2].chunk_id = "c5"
    /\ db_ret.results[1].score > db_ret.results[2].score

\* A cosine similarity of 1.0, up to the resolution of the fixed-point unit
\* vectors (each of the D components is truncated to 1/NormScale)
IsOne(score) ==
    /\ score <= SCALE
    /\ SCALE - score <= (2 * D * SCALE) \div NormScale

\* C12: when add_embeddings has inserted a chunk and the next call is
\* search_dense with that chunk's own embedding, the first result is that
\* chunk, with similarity 1.0 under the cosine metric, whatever was inserted
\* by earlier calls.
C12_RoundTrip ==
    [][ ( /\ db_op = "add_embeddings"
          /\ db_ret.outcome = "True"
          /\ db_op' = "search_dense" )
        => \A i \in 1..Len(db_arg) :
              db_arg[i].dense_embedding = db_arg'
              => /\ db_ret'.outcome = "ok"
                 /\ db_ret'.results # <<>>
                 /\ db_ret'.results[1].chunk_id = db_arg[i].chunk_id
                 /\ vector_db.metric = "cosine" => IsOne(db_ret'.results[1].score)
      ]_vars

\* C13: no retrieve call runs on an engine whose dense_weight and
\* sparse_weight do not sum to 1.0: construction rejects such weights.
C13_WeightsSumToOne ==
    pc # "idle" => retriever.dense_weight + retriever.sparse_weight = 10

\* C14: a sparse search on an engine whose term index was never fitted ends
\* with a not-fitted error; it hands no list, not even an empty one, to the
\* fusion, so the query does not go on with the dense candidates alone.
C14_UnfittedSparseSearchFails ==
    (pc \in {"rerank", "context_fusion", "done"} /\ call.query.valid /\ ~retriever.tfidf)
    => (stage.sparse_raised /\ stage.initial = <<>>)

\* C15: when add_embeddings on an untrained IVF database gets a batch too
\* small for training (training is skipped: fewer than 1000 vectors, or
\* fewer than nlist), the database is afterwards a FLAT one marked trained:
\* index_type is FLAT and is_trained is true.
C15_SmallCollectionSafeguard ==
    [][ ( /\ db_op' = "add_embeddings"
          /\ db_ret'.outcome = "True"
          /\ vector_db.index_type = "IVF"
          /\ ~vector_db.is_trained
          /\ Len(db_arg') < Max2(IVFSmallDataset, vector_db.nlist) )
        => ( /\ vector_db'.index_type = "FLAT"
             /\ vector_db'.is_trained
             /\ vector_db'.dense_index.kind = "FLAT" )
      ]_vars

\* C16: however the concurrent retrieve calls of one engine interleave,
\* total_queries counts exactly the calls that have returned and
\* avg_retrieval_time is the mean of their processing times: in particular
\* when all N calls have completed, total_queries is N and no update is lost.
Completed == {c \in Callers : callers[c].pc = "returned"}

RECURSIVE SumOfTimes(_)
SumOfTimes(cs) ==
    IF cs = {} THEN 0
    ELSE LET c == CHOOSE x \in cs : TRUE
         IN  callers[c].processing_time + SumOfTimes(cs \ {c})

C16_StatisticsSerialized ==
    /\ retriever.total_queries = Cardinality(Completed)
    /\ retriever.avg_retrieval_time * Cardinality(Completed)
          = TimeScale * SumOfTimes(Completed)

\* C16 witness: all calls have returned, with different processing times,
\* and a call made later has overtaken one made earlier.
C16_Witness ==
    /\ Completed = Callers
    /\ \E c, d \in Callers :
          /\ callers[c].arrival < callers[d].arrival
          /\ callers[c].stats_total_queries > callers[d].stats_total_queries
          /\ callers[c].processing_time # callers[d].processing_time

\* C17: a response of retrieve holds at most max_final_results results,
\* however many candidates come out of reranking and diversity injection.
C17_AtMostMaxFinalResults ==
    Returned => Len(response.results) <= retriever.max_final_results

\* s is t with some elements left out
RECURSIVE IsSubsequence(_, _)
IsSubsequence(s, t) ==
    IF s = <<>> THEN TRUE
    ELSE IF t = <<>> THEN FALSE
    ELSE IF s[1] = t[1] THEN IsSubsequence(Tail(s), Tail(t))
    ELSE IsSubsequence(s, Tail(t))

\* C18: for every non-empty ranked list, diversity injection returns at
\* most 10 candidates, the first of them is the top-ranked input candidate,
\* and the output is a subsequence of the input, in the input's order.
C18_DiversityCapTopAndOrder ==
    (/\ pc = "diversity_injection"
     /\ response.outcome = "diverse"
     /\ stage.reranked # <<>>)
    => /\ Len(response.results) <= 10
       /\ response.results # <<>>
       /\ response.results[1] = stage.reranked[1]
       /\ IsSubsequence(response.results, stage.reranked)

\* More than 10 candidates went in, exactly 10 came out, and they are not
\* simply the first 10: a candidate that repeats the key terms was left out
C18_Witness ==
    /\ pc = "diversity_injection"
    /\ response.outcome = "diverse"
    /\ Len(stage.reranked) > 10
    /\ Len(response.results) = 10
    /\ response.results # Take(stage.reranked, 10)
    /\ response.results[1] = stage.reranked[1]

\* C19: when the cross-encoder call raises, every candidate's rerank_score
\* is the score the lexical fallback (_advanced_similarity_score: 0.4
\* overlap + 0.4 substring + 0.2 length preference) gives that candidate.
C19_FallbackScoresOnThrow ==
    (/\ pc = "context_fusion"
     /\ retriever.cross_encoder
     /\ call.cross_encoder = "throws")
    => \A i \in 1..Len(stage.reranked) :
          stage.reranked[i].rerank_score =
             SimilarityScore(call.query, stage.reranked[i].chunk_id)

\* The hybrid score the weighted formula gives result r at position i of
\* the fusion output: dense_weight x normalized dense score + sparse_weight
\* x normalized sparse score (0 for a missing signal), with the context
\* boost of the results the sparse list holds and the position factor.
SparseChunks ==
    LET sparse == SparseRetrieval(retriever, call.query,
                                  retriever.max_initial_results).results
    IN  {sparse[j].chunk_id : j \in 1..Len(sparse)}

WeightedHybrid(r, i) ==
    LET base  == Weighted(r.dense_score, retriever.dense_weight)
                 + Weighted(r.sparse_score, retriever.sparse_weight)
        boost == IF r.chunk_id \in SparseChunks
                 THEN CalculateContextBoost(r.chunk_id)
                 ELSE SCALE
    IN  (((base * boost) \div SCALE) * (1000 - 5 * (i - 1))) \div 1000

\* C20: every result of the fusion, found by both searches, only by the
\* dense one or only by the sparse one, has the hybrid_score of the weighted
\* formula over its normalized scores, with 0 for the missing signal.
C20_HybridScoreFormula ==
    pc = "rerank"
    => \A i \in 1..Len(stage.initial) :
          stage.initial[i].hybrid_score = WeightedHybrid(stage.initial[i], i)

\* The candidate lists _initial_retrieval hands to the fusion in this call
DenseList ==
    DenseRetrieval(retriever, vector_db, call.query, retriever.max_initial_results).results

SparseList ==
    SparseRetrieval(retriever, call.query, retriever.max_initial_results).results

ScoreOf(list, chunk_id, field) ==
    LET i == CHOOSE j \in 1..Len(list) : list[j].chunk_id = chunk_id
    IN  IF field = "dense" THEN list[i].dense_score ELSE list[i].sparse_score

\* min-max normalization as stated: 1.0 for the largest and 0.0 for the
\* smallest of two or more distinct scores, 1.0 for the score of a
\* single-element list, the score itself in a list of zero range
StatedNormalized(score, scores) ==
    IF Len(scores) = 1 THEN SCALE
    ELSE IF SeqMax(scores) = SeqMin(scores) THEN score
    ELSE ((score - SeqMin(scores)) * SCALE) \div (SeqMax(scores) - SeqMin(scores))

\* C21: the fusion normalizes the scores of each input list by min-max: the
\* largest of two or more distinct scores becomes 1.0 and the smallest 0.0,
\* the score of a single-element list becomes 1.0, and the scores of a list
\* of zero range stay as they are.
C21_MinMaxNormalization ==
    pc = "rerank"
    => LET dense  == DenseList
           sparse == SparseList
           ds     == [i \in 1..Len(dense) |-> dense[i].dense_score]
           ss     == [i \in 1..Len(sparse) |-> sparse[i].sparse_score]
       IN  \A i \in 1..Len(stage.initial) :
              LET r == stage.initial[i]
              IN  /\ (\E j \in 1..Len(dense) : dense[j].chunk_id = r.chunk_id)
                     => r.dense_score =
                           StatedNormalized(ScoreOf(dense, r.chunk_id, "dense"), ds)
                  /\ (\E j \in 1..Len(sparse) : sparse[j].chunk_id = r.chunk_id)
                     => r.sparse_score =
                           StatedNormalized(ScoreOf(sparse, r.chunk_id, "sparse"), ss)

\* The multipliers that apply to the boosted result, in percent, and their
\* product in units of 10^-8
LengthPercent ==
    IF 800 <= call.content_length /\ call.content_length <= 2000 THEN 110
    ELSE IF call.content_length > 3000 THEN 95 ELSE 100

SectionPercent ==
    IF call.section.present /\ SectionKind(call.section.name) = "procedural" THEN 115
    ELSE IF call.section.present /\ SectionKind(call.section.name) = "introductory"
    THEN 105 ELSE 100

TokenPercent == IF 200 <= call.token_count /\ call.token_count <= 1500 THEN 108 ELSE 100

TypePercent == IF call.chunk_type = "semantic" THEN 105 ELSE 100

CappedProduct ==
    Min2(LengthPercent * SectionPercent * TokenPercent * TypePercent, 130000000)

\* C22: for every content length and every section, token_count and
\* chunk_type, the context boost is the product of the multipliers that
\* apply, capped at 1.3 (to the resolution of the fixed-point factor), and
\* lies between 0.95 and 1.3.
C22_BoostIsCappedProduct ==
    pc = "boosted"
    => /\ response.boost * SCALE <= CappedProduct
       /\ CappedProduct < (response.boost + 2) * SCALE
       /\ 9500 <= response.boost
       /\ response.boost <= 13000

\* all four heuristics apply and their product, 1.4345, is cut to 1.3
C22_Witness ==
    /\ pc = "boosted"
    /\ LengthPercent = 110 /\ SectionPercent = 115
    /\ TokenPercent = 108 /\ TypePercent = 105
    /\ response.boost = 13000

\* the key terms (first 20 tokens) of the first n candidates of a list
LeadsOf(results, n) ==
    UNION {ChunkData[results[j].chunk_id].lead : j \in 1..n}

\* C23: every candidate but the first that diversity injection outputs
\* shares less than 0.7 of its key terms with the candidates selected before
\* it, or has a final_score above 0.9, whatever the length of the list.
C23_AdmittedAreDifferentOrConfident ==
    (pc = "diversity_injection" /\ response.outcome = "diverse")
    => \A j \in 2..Len(response.results) :
          LET r        == response.results[j]
              keywords == ChunkData[r.chunk_id].lead
              used     == LeadsOf(response.results, j - 1)
          IN  \/ keywords = {}
              \/ 10 * Cardinality(used \cap keywords) < 7 * Cardinality(keywords)
              \/ r.final_score > (SCALE * 9) \div 10

\* The list the budgeting loop of _context_fusion went through, the blocks
\* it appended whole, and the tokens left when the next candidate came up
DiverseList == ApplyDiversityInjection(Take(stage.reranked, ExtendedSelection)).results

WholeParts == SelectSeq(response.parts, LAMBDA p : p.truncated = "no")

TokensLeft ==
    (retriever.context_window_size - ReservedTokens)
      - SumSeq([i \in 1..Len(WholeParts) |-> EstimateTokens(WholeParts[i].words)])

\* the candidate after the whole blocks did not fit, and its header, its
\* first sentence and the truncation marker would have
FirstSentenceFits ==
    /\ Len(WholeParts) < Len(DiverseList)
    /\ LET c == DiverseList[Len(WholeParts) + 1].chunk_id
       IN  /\ EstimateTokens(HeaderWords(c) + ContentWords(c)) > TokensLeft
           /\ EstimateTokens(HeaderWords(c) + ChunkData[c].sentences[1] + 1) <= TokensLeft

\* C24: when a candidate block does not fit in what is left of the budget
\* but its first sentence does, the budgeter emits a truncated block of whole
\* leading sentences of the content.
C24_TruncatesAtSentence ==
    (Returned /\ response.fusion = "advanced" /\ FirstSentenceFits)
    => /\ Len(response.parts) = Len(WholeParts) + 1
       /\ response.parts[Len(response.parts)].truncated = "sentences"
       /\ response.parts[Len(response.parts)].chunk_id
             = DiverseList[Len(WholeParts) + 1].chunk_id

\* The three terms of the fallback score of chunk c for query q, at SCALE:
\* the share of the query words among the content words, the share of the
\* query words occurring in the content, and the length preference
OverlapRatio(q, c) ==
    (SCALE * Cardinality(q.words \cap ChunkData[c].words)) \div Cardinality(q.words)

SubstringRatio(q, c) ==
    (SCALE * Cardinality({w \in q.words : OccursIn(w, c)})) \div Cardinality(q.words)

LengthPreference(c) ==
    IF ChunkData[c].chars = 0 THEN 0
    ELSE IF ChunkData[c].chars <= 500 THEN SCALE
    ELSE (SCALE * 500) \div ChunkData[c].chars

C26_PopulatedIVFIsTrained ==
    (vector_db.dense_index.kind = "IVF" /\ Len(vector_db.dense_index.vectors) >= 1)
        => (vector_db.dense_index.trained /\ vector_db.is_trained)

\* a bulk ingestion trained the IVF index and the vectors went into it
C26_Witness ==
    /\ db_op = "add_embeddings"
    /\ db_ret.outcome = "True"
    /\ vector_db.dense_index.kind = "IVF"
    /\ Len(vector_db.dense_index.vectors) >= Len(BulkBatch)
    /\ vector_db.dense_index.trained
    /\ vector_db.is_trained

\* C27: once add_embeddings has stored the results of an embed_chunks call,
\* every row of the stored sparse matrix, those of the chunks indexed before
\* that call included, is a vector under the vocabulary the engine is fitted
\* with: no two rows come from different fitted vocabularies.
C27_RowsOfTheFittedVocabulary ==
    (db_op = "add_embeddings" /\ db_ret.outcome = "True" /\ embedding_engine.is_fitted)
        => \A i \in 1..Len(vector_db.sparse_embeddings) :
              vector_db.sparse_embeddings[i].vocabulary = embedding_engine.tfidf_vectorizer

AddedEmbedding(c) ==
    IF \E e \in Embeddings : e.chunk_id = c
    THEN (CHOOSE e \in Embeddings : e.chunk_id = c).dense_embedding
    ELSE BulkBatch[1].dense_embedding

\* C29: after every sequence of add_embeddings calls, for every index type
\* and batch size, total_vectors, next_id and the number of vectors the index
\* in use holds are equal, and the vector at each position of the index is
\* the one of the chunk id_to_chunk_id gives for that position: nothing added
\* earlier has been discarded.
C29_IndexAgreesWithMappings ==
    /\ vector_db.total_vectors = vector_db.next_id
    /\ vector_db.next_id = Len(vector_db.dense_index.vectors)
    /\ \A i \in 1..Len(vector_db.dense_index.vectors) :
          /\ i <= Len(vector_db.id_to_chunk_id)
          /\ vector_db.dense_index.vectors[i]
                = NormalizeVector(vector_db.metric,
                                  AddedEmbedding(vector_db.id_to_chunk_id[i]))

\* C30: after every sequence of add_embeddings calls, also with batches in
\* which only some results carry a sparse embedding, the stored sparse matrix
\* has as many rows as sparse_chunk_ids has entries, and row i is the sparse
\* vector of the chunk sparse_chunk_ids[i].
C30_SparseRowsMatchIds ==
    /\ Len(vector_db.sparse_embeddings) = Len(vector_db.sparse_chunk_ids)
    /\ \A i \in 1..Len(vector_db.sparse_embeddings) :
          /\ i <= Len(vector_db.sparse_chunk_ids)
          /\ vector_db.sparse_embeddings[i].chunk_id = vector_db.sparse_chunk_ids[i]

============================================================================
